---- MODULE Spec2Model ----
(***************************************************************************)
(* A model of the Result utility module (src/src/index.ts): the            *)
(* constructors ok / err / when, the extractors unwrapSync / unwrap /      *)
(* assert, and the throw-to-Result adapters catchErr / catchErrSync.       *)
(*                                                                         *)
(* One call is in progress at a time.  A synchronous function is a single  *)
(* step; an async function takes one step up to its `await` and a second   *)
(* step when the awaited value has settled.                                *)
(***************************************************************************)
EXTENDS Integers, Sequences, FiniteSets, TLC

\* Largest number literal among the JavaScript values the callers supply.
MaxNum == 1

-----------------------------------------------------------------------------
(* JavaScript values.  t is the type tag, s the string content (a string's  *)
(* characters, an Error's message), n the numeric content (a number, or     *)
(* 0/1 for a boolean) and p tells whether the value is a promise and how it *)
(* settles: "none" (not a promise), "fulfilled" or "rejected" with the      *)
(* value described by the other fields.                                     *)

JSVal(t, s, n) == [t |-> t, s |-> s, n |-> n, p |-> "none"]

Undefined == JSVal("undefined", "", 0)

Null == JSVal("null", "", 0)

Bool(b) == JSVal("boolean", "", IF b THEN 1 ELSE 0)

Num(k) == JSVal("number", "", k)

Str(s) == JSVal("string", s, 0)

\* new Error(message)
NewError(message) == JSVal("Error", message, 0)

RangeError == JSVal("RangeError", "", 0)

Fulfilled(x) == [x EXCEPT !.p = "fulfilled"]

Rejected(x) == [x EXCEPT !.p = "rejected"]

\* The values that are not promises.
PlainVals ==
    {Undefined, Null, Bool(TRUE), Bool(FALSE), Str(""), Str("boom"), RangeError}
        \cup {Num(k) : k \in 0..MaxNum}

\* Everything a callback or a producer may return.
ReturnVals == PlainVals \cup {Fulfilled(x) : x \in PlainVals}
                        \cup {Rejected(x) : x \in PlainVals}

\* JavaScript's ToBoolean: an `if (x)` condition.
Truthy(x) ==
    IF x.p # "none" THEN TRUE
    ELSE CASE x.t \in {"undefined", "null"} -> FALSE
           [] x.t = "boolean" -> x.n = 1
           [] x.t = "number" -> x.n # 0
           [] x.t = "string" -> x.s # ""
           [] OTHER -> TRUE

\* The left operand of `??` is replaced exactly when it is null or undefined.
Nullish(x) == x.p = "none" /\ x.t \in {"undefined", "null"}

Coalesce(x, dflt) == IF Nullish(x) THEN dflt ELSE x

\* `await x`: a plain value resumes with itself, a promise with what it
\* settled to; a rejection is thrown at the await.
Await(x) ==
    IF x.p = "rejected" THEN [throws |-> TRUE, v |-> [x EXCEPT !.p = "none"]]
    ELSE [throws |-> FALSE, v |-> [x EXCEPT !.p = "none"]]

-----------------------------------------------------------------------------
(* Objects are functions from field names to JavaScript values.            *)

EmptyObj == [k \in {} |-> Undefined]

\* A property read: a missing field reads as undefined.
Get(o, k) == IF k \in DOMAIN o THEN o[k] ELSE Undefined

\* { ...base, ...over }: the later spread wins on a shared field name.
Spread(base, over) ==
    [k \in (DOMAIN base) \cup (DOMAIN over) |->
        IF k \in DOMAIN over THEN over[k] ELSE base[k]]

\* An optional object argument: given = FALSE is the omitted argument.
Omitted == [given |-> FALSE, obj |-> EmptyObj]

Some(o) == [given |-> TRUE, obj |-> o]

\* Spreading undefined adds no field.
SpreadArg(arg) == IF arg.given THEN arg.obj ELSE EmptyObj

PayloadKeys == {"ok", "count", "reason"}

FieldVals(k) ==
    CASE k = "ok" -> {Bool(TRUE), Bool(FALSE)}
      [] k = "count" -> {Num(i) : i \in 0..MaxNum}
      [] OTHER -> {Str("too small")}

\* The payload objects the callers pass.
PayloadObjs ==
    UNION {{o \in [D -> UNION {FieldVals(k) : k \in PayloadKeys}] :
                \A k \in D : o[k] \in FieldVals(k)} : D \in SUBSET PayloadKeys}

PayloadArgs == {Omitted} \cup {Some(o) : o \in PayloadObjs}

-----------------------------------------------------------------------------
(* What a call has produced so far.  kind is "none" (no call in progress),  *)
(* "await" (an async function suspended at its await; sig is the awaited    *)
(* value), "return" (obj is the returned result), "void" (returned          *)
(* nothing) or "throw" (sig is the raised signal).  For an async function   *)
(* "return" and "throw" are the settlement of the promise it returned.      *)
(* trace lists, in order, the caller-supplied functions invoked so far.     *)

NoOutcome == [kind |-> "none", obj |-> EmptyObj, sig |-> Undefined, trace |-> <<>>]

Returned(o, tr) == [kind |-> "return", obj |-> o, sig |-> Undefined, trace |-> tr]

ReturnedVoid(tr) == [kind |-> "void", obj |-> EmptyObj, sig |-> Undefined, trace |-> tr]

Thrown(x, tr) == [kind |-> "throw", obj |-> EmptyObj, sig |-> x, trace |-> tr]

Suspended(x, tr) == [kind |-> "await", obj |-> EmptyObj, sig |-> x, trace |-> tr]

-----------------------------------------------------------------------------
(* Caller-supplied functions.                                               *)

\* A callback either returns v or throws v.
Callbacks == [throws : {FALSE}, v : ReturnVals] \cup [throws : {TRUE}, v : PlainVals]

\* A failure producer (result) => unknown, described by the value it returns.
NoProducer == [given |-> FALSE, ret |-> Undefined]

Producers == {NoProducer} \cup [given : {TRUE}, ret : ReturnVals]

\* elseThrow?.(result): undefined when elseThrow is omitted.
CallElseThrow(elseThrow, result) == IF elseThrow.given THEN elseThrow.ret ELSE Undefined

ElseThrowTrace(elseThrow) == IF elseThrow.given THEN <<"elseThrow">> ELSE <<>>

\* The test predicates: omitted, one accepting everything, one rejecting
\* everything, and (e) => typeof e === "number".
Tests == {"omitted", "acceptAll", "rejectAll", "isNumber"}

ApplyTest(test, caught) ==
    CASE test = "acceptAll" -> Bool(TRUE)
      [] test = "rejectAll" -> Bool(FALSE)
      [] OTHER -> Bool(caught.p = "none" /\ caught.t = "number")

\* test?.(caught): undefined when test is omitted.
CallTest(test, caught) == IF test = "omitted" THEN Undefined ELSE ApplyTest(test, caught)

TestTrace(test) == IF test = "omitted" THEN <<>> ELSE <<"test">>

-----------------------------------------------------------------------------
(* The module's functions.                                                  *)

\* Mutant of ok: the discriminant is written after the payload is spread,
\* { ...value, ok: true }.
ok_discriminantLast(value) == Spread(SpreadArg(value), [ok |-> Bool(TRUE)])

\* return { ok: true, ...value };
ok(value) == Spread([ok |-> Bool(TRUE)], SpreadArg(value))

\* return { ok: false, ...error };
err(error) == Spread([ok |-> Bool(FALSE)], SpreadArg(error))

\* Mutant of when: the payload is attached to the Ok variant only.
when_errDropsPayload(isOk, value) == IF isOk THEN ok(value) ELSE err(Omitted)

\* return isOk ? ok(value) : err(value);
when(isOk, value) == IF isOk THEN ok(value) ELSE err(value)

\* if (result.ok) return result;
\* else throw elseThrow?.(result) ?? new Error("Error was unwrapped");
unwrapSync(result, elseThrow) ==
    IF Truthy(Get(result, "ok")) THEN Returned(result, <<>>)
    ELSE Thrown(Coalesce(CallElseThrow(elseThrow, result), NewError("Error was unwrapped")),
                ElseThrowTrace(elseThrow))

\* Mutant of unwrap: the producer is invoked before the result is inspected.
unwrap_producerFirst(result, elseThrow) ==
    IF Truthy(Get(result, "ok")) THEN Returned(result, ElseThrowTrace(elseThrow))
    ELSE Suspended(CallElseThrow(elseThrow, result), ElseThrowTrace(elseThrow))

\* The async unwrap up to its await:
\* if (result.ok) return result; else throw await elseThrow?.(result) ?? ...
unwrap(result, elseThrow) ==
    IF Truthy(Get(result, "ok")) THEN Returned(result, <<>>)
    ELSE Suspended(CallElseThrow(elseThrow, result), ElseThrowTrace(elseThrow))

\* Mutant of unwrapResume: `await (x ?? e)` instead of `(await x) ?? e`.
unwrapResume_coalesceFirst(awaited, tr) ==
    LET a == Await(Coalesce(awaited, NewError("Error was unwrapped"))) IN
    Thrown(a.v, tr)

\* The async unwrap from its await on: `await x ?? e` is `(await x) ?? e`.
unwrapResume(awaited, tr) ==
    LET a == Await(awaited) IN
    IF a.throws THEN Thrown(a.v, tr)
    ELSE Thrown(Coalesce(a.v, NewError("Error was unwrapped")), tr)

\* Mutant of assert: the default error carries unwrap's message.
assert_unwrapMessage(result, elseThrow) ==
    IF Truthy(Get(result, "ok")) THEN ReturnedVoid(<<>>)
    ELSE Thrown(Coalesce(CallElseThrow(elseThrow, result), NewError("Error was unwrapped")),
                ElseThrowTrace(elseThrow))

\* if (result.ok) return;
\* else throw elseThrow?.(result) ?? new Error("Error was asserted");
assert(result, elseThrow) ==
    IF Truthy(Get(result, "ok")) THEN ReturnedVoid(<<>>)
    ELSE Thrown(Coalesce(CallElseThrow(elseThrow, result), NewError("Error was asserted")),
                ElseThrowTrace(elseThrow))

\* First revision: unwrap(result, elseThrow?: unknown)
\* if (result.ok) return result; else throw elseThrow ?? new Error("Error was unwrapped");
unwrapV1(result, elseValue) ==
    IF Truthy(Get(result, "ok")) THEN Returned(result, <<>>)
    ELSE Thrown(Coalesce(elseValue, NewError("Error was unwrapped")), <<>>)

\* First revision: assert(result, elseThrow?: unknown)
assertV1(result, elseValue) ==
    IF Truthy(Get(result, "ok")) THEN ReturnedVoid(<<>>)
    ELSE Thrown(Coalesce(elseValue, NewError("Error was asserted")), <<>>)

\* Mutant of catchErrCatch: an omitted test accepts every signal,
\* if (!test || test(caught)) return err({ caught }).
catchErrCatch_omittedAccepts(caught, test, tr) ==
    IF test = "omitted" \/ Truthy(CallTest(test, caught))
    THEN Returned(err(Some([caught |-> caught])), tr \o TestTrace(test))
    ELSE Thrown(caught, tr \o TestTrace(test))

\* catchErr's catch block: if (test?.(caught)) return err({ caught }); throw caught;
catchErrCatch(caught, test, tr) ==
    IF Truthy(CallTest(test, caught))
    THEN Returned(err(Some([caught |-> caught])), tr \o TestTrace(test))
    ELSE Thrown(caught, tr \o TestTrace(test))

\* Mutant of catchErr: the await is missing, return ok({ value: cb() }).
catchErr_noAwait(cb, test) ==
    IF cb.throws THEN catchErrCatch(cb.v, test, <<"cb">>)
    ELSE Returned(ok(Some([value |-> cb.v])), <<"cb">>)

\* The async catchErr up to its await: try { ... await cb() ... }
catchErr(cb, test) ==
    IF cb.throws THEN catchErrCatch(cb.v, test, <<"cb">>)
    ELSE Suspended(cb.v, <<"cb">>)

\* Mutant of catchErrResume: the value is merged into the result instead of
\* being nested under the field value, return ok(await cb()): spreading a
\* primitive adds no field.
catchErrResume_merged(awaited, test, tr) ==
    LET a == Await(awaited) IN
    IF a.throws THEN catchErrCatch(a.v, test, tr)
    ELSE Returned(ok(Omitted), tr)

\* The async catchErr from its await on: return ok({ value: <awaited> }), or the
\* catch block when the awaited promise rejected.
catchErrResume(awaited, test, tr) ==
    LET a == Await(awaited) IN
    IF a.throws THEN catchErrCatch(a.v, test, tr)
    ELSE Returned(ok(Some([value |-> a.v])), tr)

\* Mutant of catchErrSync: a rejected signal is wrapped in a new error
\* instead of being re-raised as it is.
catchErrSync_wrapsRethrown(cb, test) ==
    IF ~cb.throws THEN Returned(ok(Some([value |-> cb.v])), <<"cb">>)
    ELSE IF Truthy(CallTest(test, cb.v))
         THEN Returned(err(Some([caught |-> cb.v])), <<"cb">> \o TestTrace(test))
         ELSE Thrown(NewError(cb.v.s), <<"cb">> \o TestTrace(test))

\* try { return ok({ value: cb() }); }
\* catch (caught) { if (test?.(caught)) return err({ caught }); throw caught; }
catchErrSync(cb, test) ==
    IF ~cb.throws THEN Returned(ok(Some([value |-> cb.v])), <<"cb">>)
    ELSE IF Truthy(CallTest(test, cb.v))
         THEN Returned(err(Some([caught |-> cb.v])), <<"cb">> \o TestTrace(test))
         ELSE Thrown(cb.v, <<"cb">> \o TestTrace(test))

-----------------------------------------------------------------------------
(* The state: the function being called, its arguments, and its outcome.    *)

VARIABLES fn, args, outcome

vars == <<fn, args, outcome>>

\* The results the callers hand to unwrapSync / unwrap / assert: what the
\* module's own constructors and adapters build.
Results ==
    {ok(a) : a \in PayloadArgs} \cup {err(a) : a \in PayloadArgs}
        \cup {ok(Some([value |-> Num(1)])), err(Some([caught |-> RangeError]))}

NoArgs ==
    [value |-> Omitted, isOk |-> FALSE, result |-> EmptyObj, elseThrow |-> NoProducer,
     elseValue |-> Undefined, cb |-> [throws |-> FALSE, v |-> Undefined], test |-> "omitted"]

Idle == outcome.kind = "none"

Done == outcome.kind \in {"return", "void", "throw"}

Init == fn = "none" /\ args = NoArgs /\ outcome = NoOutcome

CallOk ==
    /\ Idle
    /\ \E value \in PayloadArgs :
        /\ fn' = "ok"
        /\ args' = [NoArgs EXCEPT !.value = value]
        /\ outcome' = Returned(ok(value), <<>>)

CallErr ==
    /\ Idle
    /\ \E error \in PayloadArgs :
        /\ fn' = "err"
        /\ args' = [NoArgs EXCEPT !.value = error]
        /\ outcome' = Returned(err(error), <<>>)

CallWhen ==
    /\ Idle
    /\ \E isOk \in BOOLEAN, value \in PayloadArgs :
        /\ fn' = "when"
        /\ args' = [NoArgs EXCEPT !.isOk = isOk, !.value = value]
        /\ outcome' = Returned(when(isOk, value), <<>>)

CallUnwrapSync ==
    /\ Idle
    /\ \E result \in Results, elseThrow \in Producers :
        /\ fn' = "unwrapSync"
        /\ args' = [NoArgs EXCEPT !.result = result, !.elseThrow = elseThrow]
        /\ outcome' = unwrapSync(result, elseThrow)

CallUnwrap ==
    /\ Idle
    /\ \E result \in Results, elseThrow \in Producers :
        /\ fn' = "unwrap"
        /\ args' = [NoArgs EXCEPT !.result = result, !.elseThrow = elseThrow]
        /\ outcome' = unwrap(result, elseThrow)

ResumeUnwrap ==
    /\ fn = "unwrap"
    /\ outcome.kind = "await"
    /\ outcome' = unwrapResume(outcome.sig, outcome.trace)
    /\ UNCHANGED <<fn, args>>

CallAssert ==
    /\ Idle
    /\ \E result \in Results, elseThrow \in Producers :
        /\ fn' = "assert"
        /\ args' = [NoArgs EXCEPT !.result = result, !.elseThrow = elseThrow]
        /\ outcome' = assert(result, elseThrow)

CallUnwrapV1 ==
    /\ Idle
    /\ \E result \in Results, elseValue \in PlainVals :
        /\ fn' = "unwrapV1"
        /\ args' = [NoArgs EXCEPT !.result = result, !.elseValue = elseValue]
        /\ outcome' = unwrapV1(result, elseValue)

CallAssertV1 ==
    /\ Idle
    /\ \E result \in Results, elseValue \in PlainVals :
        /\ fn' = "assertV1"
        /\ args' = [NoArgs EXCEPT !.result = result, !.elseValue = elseValue]
        /\ outcome' = assertV1(result, elseValue)

CallCatchErr ==
    /\ Idle
    /\ \E cb \in Callbacks, test \in Tests :
        /\ fn' = "catchErr"
        /\ args' = [NoArgs EXCEPT !.cb = cb, !.test = test]
        /\ outcome' = catchErr(cb, test)

ResumeCatchErr ==
    /\ fn = "catchErr"
    /\ outcome.kind = "await"
    /\ outcome' = catchErrResume(outcome.sig, args.test, outcome.trace)
    /\ UNCHANGED <<fn, args>>

CallCatchErrSync ==
    /\ Idle
    /\ \E cb \in Callbacks, test \in Tests :
        /\ fn' = "catchErrSync"
        /\ args' = [NoArgs EXCEPT !.cb = cb, !.test = test]
        /\ outcome' = catchErrSync(cb, test)

\* The caller has consumed the outcome; the next call may start.
Finish ==
    /\ Done
    /\ fn' = "none" /\ args' = NoArgs /\ outcome' = NoOutcome

Next ==
    \/ CallOk
    \/ CallErr
    \/ CallWhen
    \/ CallUnwrapSync
    \/ CallUnwrap
    \/ ResumeUnwrap
    \/ CallAssert
    \/ CallUnwrapV1
    \/ CallAssertV1
    \/ CallCatchErr
    \/ ResumeCatchErr
    \/ CallCatchErrSync
    \/ Finish

Spec == Init /\ [][Next]_vars

-----------------------------------------------------------------------------
(* Vocabulary of the properties.                                            *)

CatchFns == {"catchErr", "catchErrSync"}

\* The callback raised: it threw, or (under catchErr, which awaits what the
\* callback returns) the promise it returned rejected.
CbRaised == args.cb.throws \/ (fn = "catchErr" /\ args.cb.v.p = "rejected")

\* The signal the callback raised.
CbSignal == [args.cb.v EXCEPT !.p = "none"]

\* The result handed to unwrapSync / unwrap / assert is an Ok result.
OkArg == Truthy(Get(args.result, "ok"))

DefaultError ==
    IF fn \in {"assert", "assertV1"} THEN NewError("Error was asserted")
    ELSE NewError("Error was unwrapped")

\* What the failure producer returned, or for the async unwrap resolved to.
Produced ==
    IF fn = "unwrap" THEN [args.elseThrow.ret EXCEPT !.p = "none"] ELSE args.elseThrow.ret

-----------------------------------------------------------------------------
\* C1: when catchErrSync or catchErr is called with test omitted and the
\* callback raises a signal S, the call does not raise: it returns the Err
\* result {ok: false, caught: S}.
C1_OmittedTestCatches ==
    (Done /\ fn \in CatchFns /\ args.test = "omitted" /\ CbRaised)
        => /\ outcome.kind = "return"
           /\ outcome.obj = [ok |-> Bool(FALSE), caught |-> CbSignal]

\* C2: with a test predicate and a callback raising S, the call returns
\* {ok: false, caught: S} when test(S) is true, and raises exactly S (and
\* returns nothing) when test(S) is false.
C2_TestDecides ==
    (Done /\ fn \in CatchFns /\ args.test # "omitted" /\ CbRaised)
        => IF ApplyTest(args.test, CbSignal) = Bool(TRUE)
           THEN /\ outcome.kind = "return"
                /\ outcome.obj = [ok |-> Bool(FALSE), caught |-> CbSignal]
           ELSE /\ outcome.kind = "throw"
                /\ outcome.sig = CbSignal

\* Scenario 4: the filter rejects the string "boom", which is re-raised.
C2_Witness ==
    /\ Done /\ fn = "catchErrSync" /\ args.test = "isNumber"
    /\ args.cb = [throws |-> TRUE, v |-> Str("boom")]
    /\ outcome.kind = "throw" /\ outcome.sig = Str("boom")

\* C3 as stated: for every payload P, also one with a field named ok, ok(P)
\* has ok = true and err(P) has ok = false, and every field of P appears on
\* the result unchanged; with no payload the result holds only the
\* discriminant.
C3_DiscriminantAlwaysSet ==
    (Done /\ fn \in {"ok", "err"})
        => LET P == args.value
               R == outcome.obj
           IN  /\ outcome.kind = "return"
               /\ "ok" \in DOMAIN R
               /\ R["ok"] = Bool(fn = "ok")
               /\ P.given => \A k \in DOMAIN P.obj : k \in DOMAIN R /\ R[k] = P.obj[k]
               /\ ~P.given => DOMAIN R = {"ok"}

\* C3 amended: for every payload P without a field named ok, ok(P) has
\* ok = true and err(P) has ok = false; every field of P, a field named ok
\* included, appears on the result unchanged (so a payload's own ok field
\* replaces the discriminant); the result has no other field than ok and
\* those of P, and with no payload it holds only the discriminant.
C3_PayloadFieldsWin ==
    (Done /\ fn \in {"ok", "err"})
        => LET P == args.value
               R == outcome.obj
           IN  /\ outcome.kind = "return"
               /\ DOMAIN R = {"ok"} \cup (IF P.given THEN DOMAIN P.obj ELSE {})
               /\ (~P.given \/ "ok" \notin DOMAIN P.obj) => R["ok"] = Bool(fn = "ok")
               /\ P.given => \A k \in DOMAIN P.obj : R[k] = P.obj[k]

\* ok({ok: false, count: 1}) keeps the payload's ok: false.
C3_Witness ==
    /\ Done /\ fn = "ok"
    /\ args.value = Some([ok |-> Bool(FALSE), count |-> Num(1)])
    /\ outcome.obj = [ok |-> Bool(FALSE), count |-> Num(1)]

C5_OkPassesThrough ==
    (fn \in {"unwrapSync", "unwrap", "assert"} /\ OkArg)
        => /\ outcome.trace = <<>>
           /\ fn \in {"unwrapSync", "unwrap"}
                => outcome.kind = "return" /\ outcome.obj = args.result
           /\ fn = "assert" => outcome.kind = "void"

C5_Witness ==
    /\ fn = "unwrap" /\ args.elseThrow.given
    /\ args.result = [ok |-> Bool(TRUE), count |-> Num(1)]
    /\ outcome.kind = "return" /\ outcome.obj = [ok |-> Bool(TRUE), count |-> Num(1)]

\* C6: on an Err result with no failure producer, unwrapSync, unwrap and
\* assert (in both revisions) always raise, and the signal is a generic
\* error with the message "Error was unwrapped" (unwrapSync, unwrap) or
\* "Error was asserted" (assert).
C6_DefaultSignal ==
    (Done /\ ~OkArg
          /\ \/ fn \in {"unwrapSync", "unwrap", "assert"} /\ ~args.elseThrow.given
             \/ fn \in {"unwrapV1", "assertV1"} /\ args.elseValue = Undefined)
        => /\ outcome.kind = "throw"
           /\ outcome.sig = IF fn \in {"assert", "assertV1"}
                            THEN NewError("Error was asserted")
                            ELSE NewError("Error was unwrapped")

C6_Witness ==
    /\ Done /\ fn = "assert" /\ ~args.elseThrow.given
    /\ args.result = [ok |-> Bool(FALSE), caught |-> RangeError]
    /\ outcome.kind = "throw" /\ outcome.sig = NewError("Error was asserted")

\* C7: when the callback completes without raising and returns V,
\* catchErrSync returns exactly {ok: true, value: V} (V nested under value),
\* test is not invoked and nothing is raised; catchErr does the same with
\* the value the callback's return resolves to.
C7_ValueNested ==
    (Done /\ fn \in CatchFns /\ ~CbRaised)
        => /\ outcome.kind = "return"
           /\ outcome.obj = [ok |-> Bool(TRUE),
                             value |-> IF fn = "catchErr" THEN [args.cb.v EXCEPT !.p = "none"]
                                       ELSE args.cb.v]
           /\ outcome.trace = <<"cb">>

C7_Witness ==
    /\ Done /\ fn = "catchErr" /\ args.test = "acceptAll"
    /\ args.cb = [throws |-> FALSE, v |-> Fulfilled(Num(1))]
    /\ outcome.obj = [ok |-> Bool(TRUE), value |-> Num(1)]

\* C8: for every payload P, an omitted one included, when(true, P) equals
\* ok(P) and when(false, P) equals err(P).
C8_WhenIsOkOrErr ==
    (Done /\ fn = "when")
        => /\ outcome.kind = "return"
           /\ args.isOk => outcome.obj = ok(args.value)
           /\ ~args.isOk => outcome.obj = err(args.value)

\* Scenario 2: when(2 > 5, {reason: "too small"}).
C8_Witness ==
    /\ Done /\ fn = "when" /\ ~args.isOk
    /\ args.value = Some([reason |-> Str("too small")])
    /\ outcome.obj = [ok |-> Bool(FALSE), reason |-> Str("too small")]

\* C9: for a callback that completes without suspension (returns a plain
\* value or throws) and every choice of test, the settled outcome of
\* catchErr(callback, test) is the outcome of catchErrSync(callback, test).
C9_AsyncMatchesSync ==
    (Done /\ fn = "catchErr" /\ args.cb.v.p = "none")
        => outcome = catchErrSync(args.cb, args.test)

C9_Witness ==
    /\ Done /\ fn = "catchErr" /\ args.test = "acceptAll"
    /\ args.cb = [throws |-> TRUE, v |-> RangeError]
    /\ outcome.kind = "return" /\ outcome.obj = [ok |-> Bool(FALSE), caught |-> RangeError]

====
